---- MODULE Spec2Model ----
(***************************************************************************)
(* Model of cluster-api-provider-azure's kubeconfig conversion             *)
(* (ConvertKubeConfig / ExecCommand / GetKubeloginExecutablePath) and of   *)
(* the reconciler services that consume the generated scope mocks.         *)
(*                                                                         *)
(* Strings that the Go code builds with Sprintf are modelled as tuples of  *)
(* their parts.  A Go error is the tuple of its message chain, outermost   *)
(* message first; nil is the empty tuple.  A []byte result is a tuple of   *)
(* at most one file content; nil is the empty tuple.                       *)
(***************************************************************************)
EXTENDS Integers, Sequences, FiniteSets, TLC

VARIABLES
    env,          \* process environment entry KUBECONFIG: [set, value]
    files,        \* file system: function from the existing paths to content
    kubeloginEnv, \* process environment entry KUBELOGIN_PATH: [set, value]
    installed,    \* command names exec.LookPath resolves
    pc,           \* per caller: position inside ConvertKubeConfig
    call,         \* per caller: arguments of the running call
    local,        \* per caller: local variables of the running call
    helper,       \* per caller: the child process started by ExecCommand
    ctxDone,      \* per caller: the call's context has been cancelled
    hist,         \* per caller: observations of the running / last call
    cloud,        \* reconciler: keys of the resources existing in the cloud
    scopeRet,     \* reconciler: canned return value of the scope mock
    rpc,          \* reconciler: position inside Reconcile
    rkind,        \* reconciler: the service (resource kind) of this pass
    rspecs,       \* reconciler: spec list read from the scope for this pass
    ridx,         \* reconciler: index of the next spec of the pass
    rerrs,        \* reconciler: per-spec errors collected in this pass
    rlog,         \* reconciler: cloud operations issued in this pass
    rprev,        \* reconciler: per kind, the last finished pass had no error
    rstart,       \* reconciler: the cloud and rprev as this pass found them
    scopeCond,    \* reconciler: bootstrap conditions set on the extension scope
    dpc,          \* node pool: position of the derivation
    dscope,       \* node pool: the objects the control-plane scope is built from
    dout          \* node pool: the derived AgentPoolSpec

convVars == <<env, files, kubeloginEnv, installed, pc, call, local, helper,
              ctxDone, hist>>
recVars  == <<cloud, scopeRet, rpc, rkind, rspecs, ridx, rerrs, rlog, rprev,
              rstart, scopeCond>>
derVars  == <<dpc, dscope, dout>>
vars     == <<env, files, kubeloginEnv, installed, pc, call, local, helper,
              ctxDone, hist, cloud, scopeRet, rpc, rkind, rspecs, ridx, rerrs,
              rlog, rprev, rstart, scopeCond, dpc, dscope, dout>>

----------------------------------------------------------------------------
(* Constants of package cmd *)

KubeloginDefault     == "kubelogin"
KubeloginEnvVarName  == "KUBELOGIN_PATH"
KubeConfigEnvVarName == "KUBECONFIG"

(* os.TempDir() *)
TempDir == "/tmp"

----------------------------------------------------------------------------
(* Input domains *)

Callers      == {"c1", "c2"}
ClusterNames == {"east", "west"}
ConfigDatas  == {"kcA", "kcB"}
StderrTexts  == {"AADSTS7000215: invalid client secret", "x509: certificate signed by unknown authority"}
KubeloginOverride == "/opt/bin/kubelogin"
UserKubeConfig    == <<"/home/capz/.kube/config">>

NilProvider == [isNil |-> TRUE,  clientID |-> "", tenantID |-> ""]
SpProvider  == [isNil |-> FALSE, clientID |-> "client-1", tenantID |-> "tenant-1"]

(* File contents: the bytes of a kubeconfig and the login mode they carry *)
Interactive(d) == [data |-> d, login |-> "interactive"]
Truncated      == [data |-> "", login |-> "interactive"]
UserContent    == [data |-> "user", login |-> "interactive"]

(* Go values *)
NilBytes   == <<>>
Bytes(c)   == <<c>>
NilError   == <<>>
ErrorsNew(msg)       == <<msg>>
ErrorsWrap(err, msg) == <<msg>> \o err
Carries(err, text)   == \E i \in 1..Len(err) : err[i] = text

----------------------------------------------------------------------------
(* os environment *)

EnvUnset      == [set |-> FALSE, value |-> <<>>]
Setenv(v)     == [set |-> TRUE, value |-> v]
Unsetenv      == EnvUnset
Getenv(e)     == IF e.set THEN e.value ELSE <<>>

(* os file system *)
Exists(fs, name)        == name \in DOMAIN fs
WriteFile(fs, name, c)  == [q \in DOMAIN fs \cup {name} |-> IF q = name THEN c ELSE fs[q]]
Remove(fs, name)        == [q \in DOMAIN fs \ {name} |-> fs[q]]

(* fmt.Sprintf("%s/kubeconfig-%s", os.TempDir(), clusterName) *)
FileName(clusterName) == <<TempDir, "/kubeconfig-", clusterName>>

(* GetKubeloginExecutablePath *)
GetKubeloginExecutablePath(ke) == IF ke.set THEN ke.value ELSE KubeloginDefault

(* exec.LookPath *)
LookPath(inst, cmdName) == cmdName \in inst

(* kubelogin convert-kubeconfig -l spn: rewrites the file in place *)
ConvertToSpn(c) == [c EXCEPT !.login = "spn"]

----------------------------------------------------------------------------
(* ExecCommand: the error it returns, from the outcome of LookPath and of   *)
(* cmd.Run (exit status, captured standard error).                          *)

LookPathError == <<"exec: executable file not found in $PATH">>

(* ExecCommand returning cmd.Run's own error ("exit status 1") in place of  *)
(* the captured standard error                                              *)
ExecCommandRunError(found, exitCode, stderr) ==
    IF ~found THEN LookPathError
    ELSE IF exitCode # 0 THEN ErrorsNew("exit status 1")
    ELSE NilError

ExecCommand(found, exitCode, stderr) ==
    IF ~found THEN LookPathError
    ELSE IF exitCode # 0 THEN ErrorsNew(stderr)
    ELSE NilError

(* The deferred function of ConvertKubeConfig: the KUBECONFIG entry it      *)
(* leaves behind.                                                           *)
(* The deferred function calling os.Setenv whether or not the entry was set *)
DeferredEnvAlwaysSet(set, kubeConfigToRestore) == Setenv(kubeConfigToRestore)

DeferredEnv(set, kubeConfigToRestore) ==
    IF set THEN Setenv(kubeConfigToRestore) ELSE Unsetenv

(* line 468: what ConvertKubeConfig returns when the helper succeeded: the  *)
(* bytes os.ReadFile finds in this call's temp file.                        *)
(* Returning the caller's input bytes in place of the file's content *)
ConvertResultInput(fs, fileName, configData) == Bytes(Interactive(configData))

ConvertResult(fs, fileName, configData) == Bytes(fs[fileName])

(* Where control goes when a step of ConvertKubeConfig returns: the         *)
(* deferred function runs on every return after its registration.          *)
(* Cleanup written inline on the success path only: an early return skips it *)
OnReturnSkipsCleanup == "done"

OnReturn == "restore"

----------------------------------------------------------------------------
(* State of one caller *)

NoCall   == [clusterName |-> "", configData |-> "", provider |-> NilProvider]
NoLocal  == [fileName |-> <<>>, kubeConfigToRestore |-> <<>>, set |-> FALSE,
             clientSecret |-> "", helperArg |-> <<>>, config |-> NilBytes,
             err |-> NilError]
NoHelper == [state |-> "none", arg |-> <<>>, end |-> "none", stderr |-> ""]
NoHist   == [how |-> "none", first |-> FALSE, cancelledInWait |-> FALSE,
             trace |-> <<>>, envAtEntry |-> EnvUnset, fileAtEntry |-> <<>>,
             fileAfterHelper |-> <<>>]

Active(p)     == pc[p] \notin {"idle", "done"}
NotStarted(p) == pc[p] = "idle" \/ hist[p].how = "nilProvider"
FileOf(fs, name) == IF Exists(fs, name) THEN <<fs[name]>> ELSE <<>>
Did(p, op)  == [hist EXCEPT ![p].trace = Append(@, op)]
Count(seq, op) == Cardinality({i \in 1..Len(seq) : seq[i] = op})

InitConvert ==
    /\ env \in {EnvUnset, Setenv(UserKubeConfig)}
    /\ files = [q \in {UserKubeConfig} |-> UserContent]
    /\ kubeloginEnv \in {EnvUnset, Setenv(KubeloginOverride)}
    /\ installed = {KubeloginDefault}
    /\ pc = [p \in Callers |-> "idle"]
    /\ call = [p \in Callers |-> NoCall]
    /\ local = [p \in Callers |-> NoLocal]
    /\ helper = [p \in Callers |-> NoHelper]
    /\ ctxDone = [p \in Callers |-> FALSE]
    /\ hist = [p \in Callers |-> NoHist]

----------------------------------------------------------------------------
(* ConvertKubeConfig, one action per step that touches shared state *)

(* The nil check placed after the environment has been redirected *)
ConvertNilProviderLate(p) ==
    /\ pc[p] = "idle"
    /\ \E cn \in ClusterNames, cd \in ConfigDatas :
        /\ call' = [call EXCEPT ![p] =
               [clusterName |-> cn, configData |-> cd, provider |-> NilProvider]]
        /\ local' = [local EXCEPT ![p] = [NoLocal EXCEPT
               !.err = ErrorsNew("cannot convert kubeconfig without credential provider")]]
        /\ hist' = [hist EXCEPT ![p] = [NoHist EXCEPT
               !.how = "nilProvider",
               !.envAtEntry = env,
               !.fileAtEntry = FileOf(files, FileName(cn))]]
        /\ env' = Setenv(FileName(cn))
    /\ pc' = [pc EXCEPT ![p] = "done"]
    /\ helper' = [helper EXCEPT ![p] = NoHelper]
    /\ ctxDone' = [ctxDone EXCEPT ![p] = FALSE]
    /\ UNCHANGED <<files, kubeloginEnv, installed>>
    /\ UNCHANGED <<recVars, derVars>>

(* lines 436-438: credentialsProvider == nil *)
ConvertNilProvider(p) ==
    /\ pc[p] = "idle"
    /\ \E cn \in ClusterNames, cd \in ConfigDatas :
        /\ call' = [call EXCEPT ![p] =
               [clusterName |-> cn, configData |-> cd, provider |-> NilProvider]]
        /\ local' = [local EXCEPT ![p] = [NoLocal EXCEPT
               !.err = ErrorsNew("cannot convert kubeconfig without credential provider")]]
        /\ hist' = [hist EXCEPT ![p] = [NoHist EXCEPT
               !.how = "nilProvider",
               !.envAtEntry = env,
               !.fileAtEntry = FileOf(files, FileName(cn))]]
    /\ pc' = [pc EXCEPT ![p] = "done"]
    /\ helper' = [helper EXCEPT ![p] = NoHelper]
    /\ ctxDone' = [ctxDone EXCEPT ![p] = FALSE]
    /\ UNCHANGED <<env, files, kubeloginEnv, installed>>
    /\ UNCHANGED <<recVars, derVars>>

(* lines 439-449: file name, os.LookupEnv, registration of the deferred     *)
(* function                                                                 *)
ConvertBegin(p) ==
    /\ pc[p] = "idle"
    /\ \E cn \in ClusterNames, cd \in ConfigDatas :
        /\ call' = [call EXCEPT ![p] =
               [clusterName |-> cn, configData |-> cd, provider |-> SpProvider]]
        /\ local' = [local EXCEPT ![p] = [NoLocal EXCEPT
               !.fileName = FileName(cn),
               !.kubeConfigToRestore = env.value,
               !.set = env.set]]
        /\ hist' = [hist EXCEPT ![p] = [NoHist EXCEPT
               !.first = \A q \in Callers \ {p} : NotStarted(q),
               !.trace = <<"LookupEnv">>,
               !.envAtEntry = env,
               !.fileAtEntry = FileOf(files, FileName(cn))]]
    /\ pc' = [pc EXCEPT ![p] = "setenv"]
    /\ helper' = [helper EXCEPT ![p] = NoHelper]
    /\ ctxDone' = [ctxDone EXCEPT ![p] = FALSE]
    /\ UNCHANGED <<env, files, kubeloginEnv, installed>>
    /\ UNCHANGED <<recVars, derVars>>

(* line 450: os.Setenv(KubeConfigEnvVarName, fileName) *)
ConvertSetenv(p) ==
    /\ pc[p] = "setenv"
    /\ env' = Setenv(local[p].fileName)
    /\ pc' = [pc EXCEPT ![p] = "write"]
    /\ hist' = Did(p, "Setenv")
    /\ UNCHANGED <<files, kubeloginEnv, installed, call, local, helper, ctxDone>>
    /\ UNCHANGED <<recVars, derVars>>

(* lines 451-455: os.WriteFile; a failed write may leave a truncated file *)
ConvertWriteFile(p) ==
    /\ pc[p] = "write"
    /\ \/ /\ files' = WriteFile(files, local[p].fileName,
                                Interactive(call[p].configData))
          /\ pc' = [pc EXCEPT ![p] = "secret"]
          /\ local' = local
          /\ hist' = Did(p, "WriteFile")
       \/ /\ files' \in {files, WriteFile(files, local[p].fileName, Truncated)}
          /\ pc' = [pc EXCEPT ![p] = OnReturn]
          /\ local' = [local EXCEPT ![p].err = ErrorsNew("write: no space left on device")]
          /\ hist' = [Did(p, "WriteFile") EXCEPT ![p].how = "writeFailed"]
    /\ UNCHANGED <<env, kubeloginEnv, installed, call, helper, ctxDone>>
    /\ UNCHANGED <<recVars, derVars>>

(* A resolution step that drops the provider's error and goes on *)
ConvertGetClientSecretSwallowed(p) ==
    /\ pc[p] = "secret"
    /\ \/ /\ local' = [local EXCEPT ![p].clientSecret = "s3cr3t"]
          /\ hist' = Did(p, "GetClientSecret")
       \/ /\ local' = local
          /\ hist' = [Did(p, "GetClientSecret") EXCEPT ![p].how = "secretFailed"]
    /\ pc' = [pc EXCEPT ![p] = "exec"]
    /\ UNCHANGED <<env, files, kubeloginEnv, installed, call, helper, ctxDone>>
    /\ UNCHANGED <<recVars, derVars>>

(* lines 456-459: credentialsProvider.GetClientSecret(ctx) *)
ConvertGetClientSecret(p) ==
    /\ pc[p] = "secret"
    /\ \/ /\ local' = [local EXCEPT ![p].clientSecret = "s3cr3t"]
          /\ pc' = [pc EXCEPT ![p] = "exec"]
          /\ hist' = Did(p, "GetClientSecret")
       \/ /\ local' = [local EXCEPT ![p].err =
                 ErrorsWrap(ErrorsNew("secret not found"), "failed to get client secret")]
          /\ pc' = [pc EXCEPT ![p] = OnReturn]
          /\ hist' = [Did(p, "GetClientSecret") EXCEPT ![p].how = "secretFailed"]
    /\ UNCHANGED <<env, files, kubeloginEnv, installed, call, helper, ctxDone>>
    /\ UNCHANGED <<recVars, derVars>>

(* lines 460-463 and 417-426: GetKubeloginExecutablePath, os.Getenv of the  *)
(* --kubeconfig argument, exec.LookPath, and the start of the child          *)
ConvertExecStart(p) ==
    /\ pc[p] = "exec"
    /\ LET kubeLogin == GetKubeloginExecutablePath(kubeloginEnv)
           arg       == Getenv(env)
           found     == LookPath(installed, kubeLogin)
       IN  IF found
           THEN /\ helper' = [helper EXCEPT ![p] =
                       [state |-> "running", arg |-> arg, end |-> "none", stderr |-> ""]]
                /\ local' = [local EXCEPT ![p].helperArg = arg]
                /\ pc' = [pc EXCEPT ![p] = "wait"]
                /\ hist' = [hist EXCEPT ![p].trace = @ \o <<"Getenv", "LookPath", "Start">>]
           ELSE /\ helper' = helper
                /\ local' = [local EXCEPT
                       ![p].helperArg = arg,
                       ![p].err = ErrorsWrap(ExecCommand(FALSE, 0, ""),
                           "could not convert kubeconfig to non interactive format")]
                /\ pc' = [pc EXCEPT ![p] = OnReturn]
                /\ hist' = [hist EXCEPT ![p].trace = @ \o <<"Getenv", "LookPath">>,
                                        ![p].how = "notFound"]
    /\ UNCHANGED <<env, files, kubeloginEnv, installed, call, ctxDone>>
    /\ UNCHANGED <<recVars, derVars>>

(* A wait that starts the helper again after a non-zero exit *)
HelperExitRetry(p) ==
    /\ pc[p] = "wait"
    /\ helper[p].state = "running"
    /\ \/ /\ Exists(files, helper[p].arg)
          /\ files' = [files EXCEPT ![helper[p].arg] = ConvertToSpn(@)]
          /\ local' = [local EXCEPT ![p].err = ExecCommand(TRUE, 0, "")]
          /\ pc' = [pc EXCEPT ![p] = "read"]
          /\ hist' = [hist EXCEPT
                 ![p].fileAfterHelper = FileOf(files', local[p].fileName)]
          /\ helper' = [helper EXCEPT ![p].state = "exited", ![p].end = "exit"]
       \/ \E text \in StderrTexts :
          /\ files' = files
          /\ local' = local
          /\ pc' = [pc EXCEPT ![p] = "exec"]
          /\ hist' = [hist EXCEPT ![p].how = "nonZeroExit"]
          /\ helper' = [helper EXCEPT ![p].state = "exited", ![p].end = "exit",
                                      ![p].stderr = text]
    /\ UNCHANGED <<env, kubeloginEnv, installed, call, ctxDone>>
    /\ UNCHANGED <<recVars, derVars>>

(* lines 426-430 and 464-466: the child exits on its own and cmd.Run        *)
(* returns.  With status zero it has rewritten the file named by its        *)
(* --kubeconfig argument in place.                                          *)
HelperExit(p) ==
    /\ pc[p] = "wait"
    /\ helper[p].state = "running"
    /\ \/ /\ Exists(files, helper[p].arg)
          /\ files' = [files EXCEPT ![helper[p].arg] = ConvertToSpn(@)]
          /\ local' = [local EXCEPT ![p].err = ExecCommand(TRUE, 0, "")]
          /\ pc' = [pc EXCEPT ![p] = "read"]
          /\ hist' = [hist EXCEPT
                 ![p].fileAfterHelper = FileOf(files', local[p].fileName)]
          /\ helper' = [helper EXCEPT ![p].state = "exited", ![p].end = "exit"]
       \/ \E text \in StderrTexts :
          /\ files' = files
          /\ local' = [local EXCEPT ![p].err =
                 ErrorsWrap(ExecCommand(TRUE, 1, text),
                     "could not convert kubeconfig to non interactive format")]
          /\ pc' = [pc EXCEPT ![p] = OnReturn]
          /\ hist' = [hist EXCEPT ![p].how = "nonZeroExit"]
          /\ helper' = [helper EXCEPT ![p].state = "exited", ![p].end = "exit",
                                      ![p].stderr = text]
    /\ UNCHANGED <<env, kubeloginEnv, installed, call, ctxDone>>
    /\ UNCHANGED <<recVars, derVars>>

(* line 468: os.ReadFile(fileName).  os.ReadFile returns nil when the open  *)
(* fails and the bytes read so far when a read fails.                       *)
ConvertReadFile(p) ==
    /\ pc[p] = "read"
    /\ \/ /\ Exists(files, local[p].fileName)
          /\ local' = [local EXCEPT ![p].config =
                 ConvertResult(files, local[p].fileName, call[p].configData)]
          /\ hist' = [Did(p, "ReadFile") EXCEPT ![p].how = "success"]
       \/ /\ local' = [local EXCEPT ![p].err = ErrorsNew("open: no such file or directory")]
          /\ hist' = [Did(p, "ReadFile") EXCEPT ![p].how = "readFailed"]
       \/ /\ Exists(files, local[p].fileName)
          /\ local' = [local EXCEPT ![p].config = Bytes(Truncated),
                                    ![p].err = ErrorsNew("read: input/output error")]
          /\ hist' = [Did(p, "ReadFile") EXCEPT ![p].how = "readFailed"]
    /\ pc' = [pc EXCEPT ![p] = OnReturn]
    /\ UNCHANGED <<env, files, kubeloginEnv, installed, call, helper, ctxDone>>
    /\ UNCHANGED <<recVars, derVars>>

(* lines 442-447: deferred os.Setenv / os.Unsetenv *)
ConvertRestoreEnv(p) ==
    /\ pc[p] = "restore"
    /\ env' = DeferredEnv(local[p].set, local[p].kubeConfigToRestore)
    /\ pc' = [pc EXCEPT ![p] = "remove"]
    /\ hist' = Did(p, "RestoreEnv")
    /\ UNCHANGED <<files, kubeloginEnv, installed, call, local, helper, ctxDone>>
    /\ UNCHANGED <<recVars, derVars>>

(* line 448: deferred os.Remove(fileName), then the call returns *)
ConvertRemove(p) ==
    /\ pc[p] = "remove"
    /\ files' = Remove(files, local[p].fileName)
    /\ pc' = [pc EXCEPT ![p] = "done"]
    /\ hist' = Did(p, "Remove")
    /\ UNCHANGED <<env, kubeloginEnv, installed, call, local, helper, ctxDone>>
    /\ UNCHANGED <<recVars, derVars>>

(* The caller's context is cancelled while cmd.Run waits for the child.     *)
(* ConvertKubeConfig hands ctx to GetClientSecret only (whose failure is     *)
(* already any outcome of that step); ExecCommand takes no context, so no    *)
(* step of the call reads ctxDone.                                           *)
CancelContext(p) ==
    /\ pc[p] = "wait"
    /\ ~ctxDone[p]
    /\ ctxDone' = [ctxDone EXCEPT ![p] = TRUE]
    /\ hist' = [hist EXCEPT ![p].cancelledInWait = TRUE]
    /\ UNCHANGED <<env, files, kubeloginEnv, installed, pc, call, local, helper>>
    /\ UNCHANGED <<recVars, derVars>>

----------------------------------------------------------------------------
(* Scope mocks: each spec-list accessor returns the value canned for it.    *)

Kinds    == {"roleassignments", "vmssextensions"}
SpecKeys == {"k1", "k2"}
MaxSpecs == 2

RECURSIVE SeqsUpTo(_, _)
SeqsUpTo(S, n) ==
    IF n = 0 THEN {<<>>}
    ELSE LET shorter == SeqsUpTo(S, n - 1)
         IN  shorter \cup {Append(q, x) : q \in {r \in shorter : Len(r) = n - 1}, x \in S}

(* An accessor handing out only the head of the canned list *)
RoleAssignmentSpecsHeadOnly(m) ==
    SubSeq(m.roleassignments, 1, IF Len(m.roleassignments) > 0 THEN 1 ELSE 0)

(* MockRoleAssignmentScope.RoleAssignmentSpecs *)
RoleAssignmentSpecs(m) == m.roleassignments

(* An accessor handing the canned list out back to front *)
VMSSExtensionSpecsReversed(m) ==
    [i \in 1..Len(m.vmssextensions) |->
        m.vmssextensions[Len(m.vmssextensions) + 1 - i]]

(* MockVMSSExtensionScope.VMSSExtensionSpecs *)
VMSSExtensionSpecs(m) == m.vmssextensions

ScopeSpecs(m, kind) ==
    IF kind = "roleassignments" THEN RoleAssignmentSpecs(m) ELSE VMSSExtensionSpecs(m)

----------------------------------------------------------------------------
(* Reconciler service of one kind: Reconcile over the scope's spec list.    *)

Resource(kind, key) == <<kind, key>>

(* A reconciler that creates whatever the lookup found *)
NeedsCreateAlways(existed) == TRUE

(* Create-if-absent: the resource is created only when the lookup by key    *)
(* found none; there is no update branch.                                   *)
NeedsCreate(existed) == ~existed
FailedIdx(log)  == {i \in 1..Len(log) : ~log[i].ok}
Creates(log)    == {i \in 1..Len(log) : log[i].op = "create"}

IdleReconcile ==
    /\ cloud = {}
    /\ rpc = "idle"
    /\ rkind = "roleassignments"
    /\ rspecs = <<>>
    /\ ridx = 1
    /\ rerrs = {}
    /\ rlog = <<>>
    /\ rprev = [k \in Kinds |-> FALSE]
    /\ rstart = [cloud |-> {}, clean |-> FALSE]
    /\ scopeCond = [k \in SpecKeys |-> ""]

InitReconcileVars ==
    /\ scopeRet \in [Kinds -> SeqsUpTo(SpecKeys, MaxSpecs)]
    /\ IdleReconcile

(* Reconcile reads the spec list from the scope *)
ReconcileStart(kind) ==
    /\ rpc \in {"idle", "done"}
    /\ rpc' = "run"
    /\ rkind' = kind
    /\ rspecs' = ScopeSpecs(scopeRet, kind)
    /\ ridx' = 1
    /\ rerrs' = {}
    /\ rlog' = <<>>
    /\ rstart' = [cloud |-> cloud, clean |-> rprev[kind]]
    /\ UNCHANGED <<cloud, scopeRet, rprev, scopeCond>>
    /\ UNCHANGED <<convVars, derVars>>

(* One spec: look the resource up by its key; create it when it is absent;  *)
(* leave it alone when it is there.  A failed cloud call is recorded        *)
(* against the spec and the pass goes on.                                   *)
ReconcileSpec ==
    /\ rpc = "run"
    /\ ridx <= Len(rspecs)
    /\ LET key     == rspecs[ridx]
           existed == Resource(rkind, key) \in cloud
       IN  \/ /\ ~NeedsCreate(existed)
              /\ cloud' = cloud
              /\ rerrs' = rerrs
              /\ rlog' = Append(rlog, [idx |-> ridx, key |-> key, existed |-> existed,
                                       op |-> "get", ok |-> TRUE])
           \/ /\ NeedsCreate(existed)
              /\ cloud' = cloud \cup {Resource(rkind, key)}
              /\ rerrs' = rerrs
              /\ rlog' = Append(rlog, [idx |-> ridx, key |-> key, existed |-> existed,
                                       op |-> "create", ok |-> TRUE])
           \/ /\ NeedsCreate(existed)
              /\ cloud' = cloud
              /\ rerrs' = rerrs \cup {ridx}
              /\ rlog' = Append(rlog, [idx |-> ridx, key |-> key, existed |-> existed,
                                       op |-> "create", ok |-> FALSE])
           \/ /\ cloud' = cloud
              /\ rerrs' = rerrs \cup {ridx}
              /\ rlog' = Append(rlog, [idx |-> ridx, key |-> key, existed |-> existed,
                                       op |-> "get", ok |-> FALSE])
    /\ ridx' = ridx + 1
    /\ UNCHANGED <<scopeRet, rpc, rkind, rspecs, rprev, rstart, scopeCond>>
    /\ UNCHANGED <<convVars, derVars>>

(* Reconcile returns the aggregate of the per-spec errors *)
ReconcileReturn ==
    /\ rpc = "run"
    /\ ridx > Len(rspecs)
    /\ rpc' = "done"
    /\ rprev' = [rprev EXCEPT ![rkind] = (rerrs = {})]
    /\ UNCHANGED <<cloud, scopeRet, rkind, rspecs, ridx, rerrs, rlog, rstart,
                   scopeCond>>
    /\ UNCHANGED <<convVars, derVars>>

ProvisioningStates == {"Succeeded", "Failed"}

(* A role-assignment pass writing into the scope as well *)
SetBootstrapConditionsAnyKind ==
    /\ rpc = "run"
    /\ \E arg0 \in ProvisioningStates, arg1 \in SpecKeys :
           scopeCond' = [scopeCond EXCEPT ![arg1] = arg0]
    /\ UNCHANGED <<cloud, scopeRet, rpc, rkind, rspecs, ridx, rerrs, rlog, rprev, rstart>>
    /\ UNCHANGED <<convVars, derVars>>

(* MockVMSSExtensionScope.SetBootstrapConditions(arg0, arg1): the VMSS      *)
(* extension reconciler hands the scope a provisioning state and an         *)
(* extension name during its pass.  MockRoleAssignmentScope has no such     *)
(* method.                                                                  *)
SetBootstrapConditions ==
    /\ rpc = "run"
    /\ rkind = "vmssextensions"
    /\ \E arg0 \in ProvisioningStates, arg1 \in SpecKeys :
           scopeCond' = [scopeCond EXCEPT ![arg1] = arg0]
    /\ UNCHANGED <<cloud, scopeRet, rpc, rkind, rspecs, ridx, rerrs, rlog, rprev, rstart>>
    /\ UNCHANGED <<convVars, derVars>>

----------------------------------------------------------------------------
(* Node-pool spec derivation (package scope).  A string is the tuple of its *)
(* parts, the empty string the empty tuple, so that fmt.Sprintf is          *)
(* concatenation; a pointer is a tuple of at most one value, nil the empty  *)
(* tuple.                                                                   *)

Nil      == <<>>
Ptr(v)   == <<v>>

PoolNames     == {"pool0", "pool1"}
NodePoolModes == {"System", "User"}
MinSizes      == {1, 2}
MaxSizes      == {3, 10}
Subscriptions == {<<"00000000-0000-0000-0000-000000000000">>,
                  <<"11111111-1111-1111-1111-111111111111">>}
ResourceGroups == {<<>>, <<"rg1">>}
VnetNames      == {<<>>, <<"vnet1">>}
SubnetNames    == {<<>>, <<"subnet1">>}
ClusterObjNames == {"cluster1", "cluster2"}

(* A helper that builds the pool in mode System whatever mode it is given *)
getAzureMachinePoolSystemOnly(name, mode) ==
    [name |-> name,
     spec |-> [mode |-> "System", sku |-> "Standard_D2s_v3", name |-> Ptr(name),
               scaling |-> Nil]]

(* getAzureMachinePool (test helper) *)
getAzureMachinePool(name, mode) ==
    [name |-> name,
     spec |-> [mode |-> mode, sku |-> "Standard_D2s_v3", name |-> Ptr(name),
               scaling |-> Nil]]

(* A helper that passes its bounds in the wrong order *)
getAzureMachinePoolWithScalingSwapped(name, min, max) ==
    [getAzureMachinePool(name, "User") EXCEPT
        !.spec.scaling = Ptr([minSize |-> Ptr(max), maxSize |-> Ptr(min)])]

(* getAzureMachinePoolWithScaling (test helper) *)
getAzureMachinePoolWithScaling(name, min, max) ==
    [getAzureMachinePool(name, "User") EXCEPT
        !.spec.scaling = Ptr([minSize |-> Ptr(min), maxSize |-> Ptr(max)])]

(* A helper that declares a replica count on the machine pool *)
getMachinePoolThreeReplicas(name) ==
    [name |-> name, clusterName |-> "cluster1", replicas |-> Ptr(3)]

(* getMachinePool (test helper): no replica count is declared *)
getMachinePool(name) ==
    [name |-> name, clusterName |-> "cluster1", replicas |-> Nil]

(* The infrastructure pools the derivation is applied to: the helpers'      *)
(* pools, the same with another SKU or mode, and scaling policies that set  *)
(* only one bound or none.                                                  *)
InfraPools ==
    LET plain  == {getAzureMachinePool(n, m) : n \in PoolNames, m \in NodePoolModes}
        scaled == {getAzureMachinePoolWithScaling(n, a, b) :
                      n \in PoolNames, a \in MinSizes, b \in MaxSizes}
        system == {[q EXCEPT !.spec.mode = "System"] : q \in scaled}
        noMax  == {[q EXCEPT !.spec.scaling[1].maxSize = Nil] : q \in scaled}
        noMin  == {[q EXCEPT !.spec.scaling[1].minSize = Nil] : q \in scaled}
        base   == plain \cup scaled \cup system \cup noMax \cup noMin
    IN  base \cup {[q EXCEPT !.spec.sku = "Standard_D4s_v3"] : q \in base}

ControlPlanes ==
    {[subscriptionID |-> sub, resourceGroupName |-> rg, vnetName |-> vn,
      subnetName |-> sn] :
        sub \in Subscriptions, rg \in ResourceGroups, vn \in VnetNames,
        sn \in SubnetNames}

(* ManagedControlPlaneScopeParams *)
ScopeParams ==
    {[cluster |-> [name |-> c], controlPlane |-> cp,
      machinePool |-> getMachinePool(ip.name), infraMachinePool |-> ip] :
        c \in ClusterObjNames, cp \in ControlPlanes, ip \in InfraPools}

(* The subnet id without the separators of the segments that are empty *)
VnetSubnetIDCompact(cp) ==
    <<"/subscriptions/">> \o cp.subscriptionID
    \o (IF cp.resourceGroupName = <<>> THEN <<>>
        ELSE <<"/resourceGroups/">> \o cp.resourceGroupName)
    \o <<"/providers/Microsoft.Network/virtualNetworks/">> \o cp.vnetName
    \o <<"/subnets/">> \o cp.subnetName

(* The fixed template of the subnet id, an absent segment being the empty   *)
(* string                                                                   *)
VnetSubnetID(cp) ==
    <<"/subscriptions/">> \o cp.subscriptionID
    \o <<"/resourceGroups/">> \o cp.resourceGroupName
    \o <<"/providers/Microsoft.Network/virtualNetworks/">> \o cp.vnetName
    \o <<"/subnets/">> \o cp.subnetName

(* The baseline replica count: the machine pool's declared count, 1 when it *)
(* declares none                                                            *)
BaselineReplicas(mp) == IF mp.replicas = Nil THEN 1 ELSE mp.replicas[1]

(* The scaling policy counts when it sets both bounds *)
HasScaling(ip) ==
    /\ ip.spec.scaling # Nil
    /\ ip.spec.scaling[1].minSize # Nil
    /\ ip.spec.scaling[1].maxSize # Nil

(* ManagedControlPlaneScope.AgentPoolSpec *)
AgentPoolSpec(sc) ==
    [Name     |-> sc.infraMachinePool.name,
     SKU      |-> sc.infraMachinePool.spec.sku,
     Mode     |-> sc.infraMachinePool.spec.mode,
     Cluster  |-> sc.cluster.name,
     Replicas |-> BaselineReplicas(sc.machinePool),
     VnetSubnetID |-> VnetSubnetID(sc.controlPlane),
     EnableAutoScaling |->
         IF HasScaling(sc.infraMachinePool) THEN Ptr(TRUE) ELSE Nil,
     MinCount |->
         IF HasScaling(sc.infraMachinePool)
         THEN sc.infraMachinePool.spec.scaling[1].minSize ELSE Nil,
     MaxCount |->
         IF HasScaling(sc.infraMachinePool)
         THEN sc.infraMachinePool.spec.scaling[1].maxSize ELSE Nil]

NoAgentPoolSpec ==
    [Name |-> "", SKU |-> "", Mode |-> "", Cluster |-> "", Replicas |-> 0,
     VnetSubnetID |-> <<>>, EnableAutoScaling |-> Nil, MinCount |-> Nil,
     MaxCount |-> Nil]

(* The two cases of TestManagedControlPlaneScope_Autoscaling *)
TestControlPlane ==
    [subscriptionID |-> <<"00000000-0000-0000-0000-000000000000">>,
     resourceGroupName |-> <<>>, vnetName |-> <<>>, subnetName |-> <<>>]

TestInputWithoutAutoscaling ==
    [cluster |-> [name |-> "cluster1"], controlPlane |-> TestControlPlane,
     machinePool |-> getMachinePool("pool0"),
     infraMachinePool |-> getAzureMachinePool("pool0", "System")]

TestInputWithAutoscaling ==
    [cluster |-> [name |-> "cluster1"], controlPlane |-> TestControlPlane,
     machinePool |-> getMachinePool("pool1"),
     infraMachinePool |-> getAzureMachinePoolWithScaling("pool1", 2, 10)]

ExpectedVnetSubnetID ==
    <<"/subscriptions/", "00000000-0000-0000-0000-000000000000",
      "/resourceGroups/", "/providers/Microsoft.Network/virtualNetworks/",
      "/subnets/">>

ExpectedWithoutAutoscaling ==
    [Name |-> "pool0", SKU |-> "Standard_D2s_v3", Mode |-> "System",
     Cluster |-> "cluster1", Replicas |-> 1,
     VnetSubnetID |-> ExpectedVnetSubnetID,
     EnableAutoScaling |-> Nil, MinCount |-> Nil, MaxCount |-> Nil]

ExpectedWithAutoscaling ==
    [Name |-> "pool1", SKU |-> "Standard_D2s_v3", Mode |-> "User",
     Cluster |-> "cluster1", Replicas |-> 1,
     VnetSubnetID |-> ExpectedVnetSubnetID,
     EnableAutoScaling |-> Ptr(TRUE), MinCount |-> Ptr(2), MaxCount |-> Ptr(10)]

IdleDerive ==
    /\ dpc = "new"
    /\ dscope = TestInputWithoutAutoscaling
    /\ dout = NoAgentPoolSpec

InitDeriveVars ==
    /\ dpc = "new"
    /\ dscope \in ScopeParams
    /\ dout = NoAgentPoolSpec

(* NewManagedControlPlaneScope(ctx, params) *)
NewManagedControlPlaneScope ==
    /\ dpc = "new"
    /\ dpc' = "scope"
    /\ UNCHANGED <<dscope, dout>>
    /\ UNCHANGED <<convVars, recVars>>

(* agentPool := s.AgentPoolSpec() *)
DeriveAgentPoolSpec ==
    /\ dpc = "scope"
    /\ dout' = AgentPoolSpec(dscope)
    /\ dpc' = "derived"
    /\ UNCHANGED dscope
    /\ UNCHANGED <<convVars, recVars>>

----------------------------------------------------------------------------
(* Specifications *)

IdleConvert ==
    /\ env = EnvUnset
    /\ files = [q \in {UserKubeConfig} |-> UserContent]
    /\ kubeloginEnv = EnvUnset
    /\ installed = {KubeloginDefault}
    /\ pc = [p \in Callers |-> "idle"]
    /\ call = [p \in Callers |-> NoCall]
    /\ local = [p \in Callers |-> NoLocal]
    /\ helper = [p \in Callers |-> NoHelper]
    /\ ctxDone = [p \in Callers |-> FALSE]
    /\ hist = [p \in Callers |-> NoHist]

(* Callers of ConvertKubeConfig running concurrently in one process *)
Init ==
    /\ InitConvert
    /\ scopeRet = [k \in Kinds |-> <<>>]
    /\ IdleReconcile
    /\ IdleDerive

Next ==
    \E p \in Callers :
        \/ ConvertNilProvider(p)
        \/ ConvertBegin(p)
        \/ ConvertSetenv(p)
        \/ ConvertWriteFile(p)
        \/ ConvertGetClientSecret(p)
        \/ ConvertExecStart(p)
        \/ HelperExit(p)
        \/ ConvertReadFile(p)
        \/ ConvertRestoreEnv(p)
        \/ ConvertRemove(p)
        \/ CancelContext(p)

Spec == Init /\ [][Next]_vars

(* Reconcile passes of the reconciler services, one after the other *)
InitReconcile ==
    /\ IdleConvert
    /\ InitReconcileVars
    /\ IdleDerive

NextReconcile ==
    \/ \E kind \in Kinds : ReconcileStart(kind)
    \/ ReconcileSpec
    \/ ReconcileReturn
    \/ SetBootstrapConditions

SpecReconcile == InitReconcile /\ [][NextReconcile]_vars

(* Derivation of the node-pool spec from the scope's objects *)
InitDerive ==
    /\ IdleConvert
    /\ scopeRet = [k \in Kinds |-> <<>>]
    /\ IdleReconcile
    /\ InitDeriveVars

NextDerive ==
    \/ NewManagedControlPlaneScope
    \/ DeriveAgentPoolSpec

SpecDerive == InitDerive /\ [][NextDerive]_vars

(* One ConvertKubeConfig call and the reconcile passes over a scope with   *)
(* two specs of each kind, in one process                                   *)
OneCaller == {"c1"}
TwoSpecs  == [roleassignments |-> <<"k1", "k2">>, vmssextensions |-> <<"k2", "k1">>]

InitNoRetry ==
    /\ InitConvert
    /\ scopeRet = TwoSpecs
    /\ IdleReconcile
    /\ IdleDerive

NextNoRetry ==
    \/ \E p \in OneCaller :
        \/ ConvertNilProvider(p)
        \/ ConvertBegin(p)
        \/ ConvertSetenv(p)
        \/ ConvertWriteFile(p)
        \/ ConvertGetClientSecret(p)
        \/ ConvertExecStart(p)
        \/ HelperExit(p)
        \/ ConvertReadFile(p)
        \/ ConvertRestoreEnv(p)
        \/ ConvertRemove(p)
        \/ CancelContext(p)
    \/ \E kind \in Kinds : ReconcileStart(kind)
    \/ ReconcileSpec
    \/ ReconcileReturn

SpecNoRetry == InitNoRetry /\ [][NextNoRetry]_vars

----------------------------------------------------------------------------
(* Properties of ConvertKubeConfig, checked under Spec *)

(* The call of p has returned and no other caller has touched the          *)
(* environment or the file system.                                          *)
ReturnedAlone(p) ==
    /\ pc[p] = "done"
    /\ hist[p].how # "nilProvider"
    /\ \A q \in Callers \ {p} : NotStarted(q)

(* The steps of the call itself, as opposed to the child's and the          *)
(* context's                                                                *)
CallerStep(p) ==
    \/ ConvertSetenv(p)
    \/ ConvertWriteFile(p)
    \/ ConvertGetClientSecret(p)
    \/ ConvertExecStart(p)
    \/ ConvertReadFile(p)
    \/ ConvertRestoreEnv(p)
    \/ ConvertRemove(p)

Before(seq, a, b) ==
    \A i, j \in 1..Len(seq) : (seq[i] = a /\ seq[j] = b) => i < j

(* C1: when a call that passed the nil check has returned, however it      *)
(* ended, and no other call ran meanwhile, KUBECONFIG is what it was at    *)
(* call entry: the same value, or unset if it was unset.                    *)
C1_EnvRestoredOnReturn ==
    \A p \in Callers :
        ReturnedAlone(p) =>
            /\ env = hist[p].envAtEntry
            /\ hist[p].envAtEntry = [set |-> local[p].set,
                                     value |-> local[p].kubeConfigToRestore]

C1_Witness ==
    \E p \in Callers :
        /\ ReturnedAlone(p)
        /\ hist[p].how = "readFailed"
        /\ ~hist[p].envAtEntry.set
        /\ Count(hist[p].trace, "Setenv") = 1

(* C2: when a call that passed the nil check has returned, however it      *)
(* ended, and no other call ran meanwhile, its temp file                   *)
(* <tempdir>/kubeconfig-<clusterName> does not exist.                       *)
C2_TempFileRemovedOnReturn ==
    \A p \in Callers :
        ReturnedAlone(p) =>
            /\ local[p].fileName = FileName(call[p].clusterName)
            /\ ~Exists(files, local[p].fileName)

C2_Witness ==
    \E p \in Callers :
        /\ ReturnedAlone(p)
        /\ hist[p].how = "nonZeroExit"
        /\ Count(hist[p].trace, "WriteFile") = 1
        /\ ~Exists(files, FileName(call[p].clusterName))

(* C3: a call with a nil credentials provider returns an error and no      *)
(* configuration and has no side effect: no step of the protocol ran, no   *)
(* child was started, and (no other caller having run) KUBECONFIG and the  *)
(* temp file are as they were.                                              *)
C3_NilProviderNoSideEffect ==
    \A p \in Callers :
        hist[p].how = "nilProvider" =>
            /\ pc[p] = "done"
            /\ local[p].err # NilError
            /\ local[p].config = NilBytes
            /\ hist[p].trace = <<>>
            /\ helper[p].state = "none"
            /\ (\A q \in Callers \ {p} : NotStarted(q)) =>
                   /\ env = hist[p].envAtEntry
                   /\ FileOf(files, FileName(call[p].clusterName)) = hist[p].fileAtEntry

C3_Witness ==
    \E p \in Callers :
        /\ hist[p].how = "nilProvider"
        /\ call[p].provider.isNil
        /\ \A q \in Callers \ {p} : pc[q] = "idle"
        /\ env = Setenv(UserKubeConfig)

(* C4: at most one conversion is in flight at any instant: a caller that   *)
(* has redirected KUBECONFIG and not yet released it and its file excludes *)
(* every other caller from doing so.                                        *)
InFlight(p) == pc[p] \in {"write", "secret", "exec", "wait", "read", "restore", "remove"}

C4_OneConversionInFlight ==
    \A p, q \in Callers : (p # q /\ InFlight(p)) => ~InFlight(q)

(* C5: once every call has returned, KUBECONFIG holds the value it had     *)
(* before the first call started, and does not name a missing file.        *)
C5_EnvRestoredAfterConcurrentCalls ==
    (\A p \in Callers : pc[p] = "done") =>
        /\ \A p \in Callers : hist[p].first => env = hist[p].envAtEntry
        /\ env.set => Exists(files, env.value)

(* C8: when the helper exits with non-zero status the call's error carries *)
(* the helper's standard error text, no configuration is returned and the  *)
(* temp file is not read back.                                              *)
C8_NonZeroExitCarriesStderr ==
    \A p \in Callers :
        hist[p].how = "nonZeroExit" =>
            /\ Carries(local[p].err, helper[p].stderr)
            /\ local[p].config = NilBytes
            /\ Count(hist[p].trace, "ReadFile") = 0

C8_Witness ==
    \E p \in Callers :
        /\ hist[p].how = "nonZeroExit"
        /\ pc[p] = "done"
        /\ helper[p].stderr = "x509: certificate signed by unknown authority"

(* C9: when the helper exits with status zero (and no other call ran       *)
(* meanwhile) the call returns the content its temp file had after the     *)
(* helper ran, which is the converted content and not the input bytes, and *)
(* it reads the file before it removes it.                                  *)
C9_ResultIsHelperOutput ==
    \A p \in Callers :
        (hist[p].how = "success" /\ \A q \in Callers \ {p} : NotStarted(q)) =>
            /\ local[p].config = hist[p].fileAfterHelper
            /\ local[p].config = Bytes(ConvertToSpn(Interactive(call[p].configData)))
            /\ local[p].config # Bytes(Interactive(call[p].configData))
            /\ local[p].err = NilError
            /\ Before(hist[p].trace, "ReadFile", "Remove")

C9_Witness ==
    \E p \in Callers :
        /\ ReturnedAlone(p)
        /\ hist[p].how = "success"
        /\ local[p].config = Bytes([data |-> "kcB", login |-> "spn"])

(* C10: when the context is cancelled while the call waits for the helper, *)
(* the call has a step of its own to take (terminating the helper and      *)
(* returning); it does not depend on the helper exiting by itself.         *)
C10_CancelEndsWait ==
    \A p \in Callers :
        (pc[p] = "wait" /\ ctxDone[p]) => ENABLED CallerStep(p)

(* C15: whenever a call has invoked the helper, the helper's --kubeconfig  *)
(* argument is the temp file path of that same call, whatever other calls  *)
(* did to KUBECONFIG meanwhile.                                             *)
C15_HelperArgIsOwnTempFile ==
    \A p \in Callers :
        helper[p].state # "none" =>
            /\ helper[p].arg = local[p].fileName
            /\ helper[p].arg = FileName(call[p].clusterName)

FailedEarly(p) == hist[p].how \in {"writeFailed", "secretFailed", "notFound"}

(* C16: a call stops at its first failed step: after a failed write no     *)
(* secret is resolved, after a failed write or resolution the helper is    *)
(* not looked up, after any of these or a failed lookup no child is        *)
(* started and no file is read back; the call is then on its way out with  *)
(* a non-nil error and no configuration, and a returned call without an    *)
(* error is a success.                                                      *)
C16_StopsAtFirstFailure ==
    \A p \in Callers :
        /\ hist[p].how = "writeFailed" =>
               /\ Count(hist[p].trace, "GetClientSecret") = 0
               /\ hist[p].trace = <<"LookupEnv", "Setenv", "WriteFile">>
                      \o SubSeq(hist[p].trace, 4, Len(hist[p].trace))
        /\ hist[p].how \in {"writeFailed", "secretFailed"} =>
               Count(hist[p].trace, "LookPath") = 0
        /\ hist[p].how = "secretFailed" =>
               Count(hist[p].trace, "GetClientSecret") = 1
        /\ hist[p].how = "notFound" =>
               Count(hist[p].trace, "LookPath") = 1
        /\ FailedEarly(p) =>
               /\ Count(hist[p].trace, "Start") = 0
               /\ Count(hist[p].trace, "ReadFile") = 0
               /\ helper[p].state = "none"
               /\ pc[p] \in {"restore", "remove", "done"}
               /\ local[p].err # NilError
               /\ local[p].config = NilBytes
        /\ (pc[p] = "done" /\ local[p].err = NilError) => hist[p].how = "success"

C16_Witness ==
    \E p, q \in Callers :
        /\ pc[p] = "done"
        /\ hist[p].how = "secretFailed"
        /\ Carries(local[p].err, "secret not found")
        /\ pc[q] = "done"
        /\ hist[q].how = "notFound"

----------------------------------------------------------------------------
(* Properties of the reconciler services, checked under SpecReconcile *)

(* C6: a finished Reconcile has attempted every spec the scope holds, once *)
(* each and whatever failed before it, and its aggregate error names       *)
(* exactly the specs whose cloud call failed (none when none failed).      *)
C6_AllSpecsAttemptedErrorsAggregated ==
    rpc = "done" =>
        LET canned == scopeRet[rkind]
        IN  /\ Len(rlog) = Len(canned)
            /\ \A i \in 1..Len(rlog) : rlog[i].idx = i /\ rlog[i].key = canned[i]
            /\ rerrs = FailedIdx(rlog)
            /\ (rerrs = {}) = (\A i \in 1..Len(rlog) : rlog[i].ok)

C6_Witness ==
    /\ rpc = "done"
    /\ rkind = "roleassignments"
    /\ Len(scopeRet[rkind]) = 2
    /\ rerrs = {1}
    /\ rlog[2].op = "create" /\ rlog[2].ok

(* C7: Reconcile creates a resource only when none exists under the spec's *)
(* key and never updates one; a Reconcile that follows a fully successful  *)
(* Reconcile of the same kind creates nothing and leaves the cloud as it   *)
(* found it.                                                                *)
C7_CreateIfAbsentIdempotent ==
    /\ \A i \in 1..Len(rlog) :
          /\ rlog[i].op \in {"get", "create"}
          /\ rlog[i].op = "create" => ~rlog[i].existed
    /\ (rpc \in {"run", "done"} /\ rstart.clean) =>
          /\ Creates(rlog) = {}
          /\ cloud = rstart.cloud

C7_Witness ==
    /\ rpc = "done"
    /\ rstart.clean
    /\ Len(rlog) = 2
    /\ rlog[1].key # rlog[2].key
    /\ \A i \in 1..2 : rlog[i].op = "get" /\ rlog[i].ok /\ rlog[i].existed

----------------------------------------------------------------------------
(* Properties of the node-pool spec derivation, checked under SpecDerive *)

Derived == dpc = "derived"

Separators ==
    {"/subscriptions/", "/resourceGroups/",
     "/providers/Microsoft.Network/virtualNetworks/", "/subnets/"}
IsSeparator(part) == part \in Separators
IsSegment(part)   == part \notin Separators

(* C11: the autoscaling fields of the derived spec are present exactly     *)
(* when the pool's scaling policy sets both bounds, and then carry those   *)
(* bounds with autoscaling enabled; without a scaling policy all three are *)
(* nil.                                                                     *)
C11_AutoScalingPresentIffDeclared ==
    Derived =>
        LET sc   == dscope.infraMachinePool.spec.scaling
            both == sc # Nil /\ sc[1].minSize # Nil /\ sc[1].maxSize # Nil
        IN  /\ (dout.EnableAutoScaling # Nil) = both
            /\ (dout.MinCount # Nil) = both
            /\ (dout.MaxCount # Nil) = both
            /\ both => /\ dout.EnableAutoScaling = Ptr(TRUE)
                       /\ dout.MinCount = sc[1].minSize
                       /\ dout.MaxCount = sc[1].maxSize
            /\ dscope = TestInputWithAutoscaling =>
                   /\ dout.EnableAutoScaling = Ptr(TRUE)
                   /\ dout.MinCount = Ptr(2)
                   /\ dout.MaxCount = Ptr(10)

C11_Witness ==
    /\ Derived
    /\ dscope = TestInputWithAutoscaling
    /\ dout = ExpectedWithAutoscaling

(* C12: the subnet id is the fixed template: its four separators always,   *)
(* in order, each followed by its segment or by nothing when the segment   *)
(* is absent; with the three optional segments absent it is the literal    *)
(* with doubled slashes.                                                    *)
C12_VnetSubnetIDTemplate ==
    Derived =>
        LET id == dout.VnetSubnetID
            cp == dscope.controlPlane
        IN  /\ SelectSeq(id, IsSeparator) =
                   <<"/subscriptions/", "/resourceGroups/",
                     "/providers/Microsoft.Network/virtualNetworks/", "/subnets/">>
            /\ SelectSeq(id, IsSegment) =
                   cp.subscriptionID \o cp.resourceGroupName \o cp.vnetName
                       \o cp.subnetName
            /\ id[1] = "/subscriptions/"
            /\ \A i \in 1..Len(id) - 1 :
                   /\ id[i] = "/resourceGroups/" /\ IsSegment(id[i + 1])
                          => cp.resourceGroupName = <<id[i + 1]>>
                   /\ id[i] = "/subnets/" => cp.subnetName = <<id[i + 1]>>
                   /\ IsSegment(id[i]) => IsSeparator(id[i + 1])
            /\ (cp.resourceGroupName = <<>> /\ cp.vnetName = <<>> /\ cp.subnetName = <<>>)
                   => id = <<"/subscriptions/", cp.subscriptionID[1], "/resourceGroups/",
                             "/providers/Microsoft.Network/virtualNetworks/", "/subnets/">>
            /\ cp = TestControlPlane => id = ExpectedVnetSubnetID

C12_Witness ==
    /\ Derived
    /\ dscope.controlPlane = TestControlPlane
    /\ dout.VnetSubnetID = ExpectedVnetSubnetID
    /\ Len(dout.VnetSubnetID) = 5

C14_IdentityFieldsCopied ==
    Derived =>
        LET ip     == dscope.infraMachinePool
            bare   == AgentPoolSpec([dscope EXCEPT !.infraMachinePool.spec.scaling = Nil])
        IN  /\ dout.Name = ip.name
            /\ dout.SKU = ip.spec.sku
            /\ dout.Mode = ip.spec.mode
            /\ dout.Mode \in NodePoolModes
            /\ dout.Cluster = dscope.cluster.name
            /\ <<dout.Name, dout.SKU, dout.Mode, dout.Cluster>> =
                   <<bare.Name, bare.SKU, bare.Mode, bare.Cluster>>
            /\ dscope = TestInputWithAutoscaling =>
                   <<dout.Name, dout.SKU, dout.Mode, dout.Cluster>> =
                       <<"pool1", "Standard_D2s_v3", "User", "cluster1">>
            /\ dscope = TestInputWithoutAutoscaling =>
                   <<dout.Name, dout.SKU, dout.Mode, dout.Cluster>> =
                       <<"pool0", "Standard_D2s_v3", "System", "cluster1">>

C14_Witness ==
    /\ Derived
    /\ dscope = TestInputWithoutAutoscaling
    /\ dout = ExpectedWithoutAutoscaling

(* C17: at every point of a Reconcile call the cloud operations issued so  *)
(* far are those of the first specs of the list the scope's accessor       *)
(* holds, one per position and in the list's order, failed or not; the     *)
(* next to be issued is the following position.                            *)
C17_SpecsAttemptedInScopeOrder ==
    rpc \in {"run", "done"} =>
        /\ Len(rlog) <= Len(scopeRet[rkind])
        /\ \A i \in 1..Len(rlog) :
               /\ rlog[i].idx = i
               /\ rlog[i].key = scopeRet[rkind][i]
        /\ ridx = Len(rlog) + 1

C17_Witness ==
    /\ rpc = "run"
    /\ rkind = "vmssextensions"
    /\ Len(rlog) = 2
    /\ ~rlog[1].ok
    /\ rlog[1].key # rlog[2].key
    /\ <<rlog[1].key, rlog[2].key>> = scopeRet["vmssextensions"]

----------------------------------------------------------------------------
(* Properties of the core as a whole, checked under SpecNoRetry *)

(* C18: within one ConvertKubeConfig call the client secret is resolved at *)
(* most once, the helper is looked up and started at most once, and a      *)
(* call whose resolution or helper failed takes neither step again; within *)
(* one Reconcile call no spec position has two cloud operations, failed or *)
(* not.                                                                     *)
C18_NoInternalRetry ==
    /\ \A p \in Callers :
           /\ Count(hist[p].trace, "GetClientSecret") <= 1
           /\ Count(hist[p].trace, "LookPath") <= 1
           /\ Count(hist[p].trace, "Start") <= 1
           /\ hist[p].how \in {"secretFailed", "notFound", "nonZeroExit"} =>
                  pc[p] \in {"restore", "remove", "done"}
    /\ \A i, j \in 1..Len(rlog) : rlog[i].idx = rlog[j].idx => i = j
    /\ Len(rlog) <= Len(rspecs)

C18_Witness ==
    /\ pc["c1"] = "done"
    /\ hist["c1"].how = "nonZeroExit"
    /\ Count(hist["c1"].trace, "Start") = 1
    /\ Count(hist["c1"].trace, "GetClientSecret") = 1
    /\ rpc = "done"
    /\ Len(rlog) = 2
    /\ ~rlog[1].ok

====
